---- MODULE Spec2Model ----
(***************************************************************************)
(* Model of signature_capture.py: the capture protocol of                  *)
(* SignatureCapture._capture_once, the image synthesis of                  *)
(* SignatureProcessor.process_pixel_data and the orchestration loop of     *)
(* SignatureCapture.capture_signature.                                     *)
(*                                                                         *)
(* Text is modelled as a sequence of tokens.  The three protocol keywords  *)
(* and the characters of the alphabet are tokens; a line is what           *)
(* SerialConnection.read_line returns (decoded, stripped, never empty).    *)
(***************************************************************************)
EXTENDS Integers, Sequences, FiniteSets, TLC

\* Bounds of the model.
MaxPixels == 2
MaxRounds == 2

(***************************************************************************)
(* Text helpers                                                            *)
(***************************************************************************)
START_SAVING == "START_SAVING:"
END_SAVING == "END_SAVING"
DIM == "DIM:"
COMMA == ","

HexChars == <<"0", "1", "2", "3", "4", "5", "6", "7", "8", "9", "A", "B", "C", "D", "E", "F">>

\* The digit value of a character in the given base, or -1.
DigitVal(ch, base) ==
    IF \E i \in 1..base : HexChars[i] = ch
    THEN (CHOOSE i \in 1..base : HexChars[i] = ch) - 1
    ELSE -1

RECURSIVE DigitsValue(_, _)
DigitsValue(ds, base) ==
    IF ds = <<>> THEN 0
    ELSE DigitsValue(SubSeq(ds, 1, Len(ds) - 1), base) * base + DigitVal(ds[Len(ds)], base)

\* Python int(text, base): optional sign, then at least one digit of the base.
\* ok = FALSE stands for ValueError.
ParseInt(text, base) ==
    LET signed == Len(text) > 0 /\ text[1] \in {"-", "+"}
        ds == IF signed THEN Tail(text) ELSE text
        good == Len(ds) > 0 /\ \A i \in 1..Len(ds) : DigitVal(ds[i], base) >= 0
        mag == IF good THEN DigitsValue(ds, base) ELSE 0
    IN  [ok |-> good, val |-> IF signed /\ text[1] = "-" THEN 0 - mag ELSE mag]

\* str.split(","): always at least one field.
RECURSIVE Split(_)
Split(text) ==
    IF \E i \in 1..Len(text) : text[i] = COMMA
    THEN LET i == CHOOSE k \in 1..Len(text) :
                      text[k] = COMMA /\ \A j \in 1..(k - 1) : text[j] # COMMA
         IN  <<SubSeq(text, 1, i - 1)>> \o Split(SubSeq(text, i + 1, Len(text)))
    ELSE <<text>>

\* line.startswith(prefix) for a keyword prefix.
StartsWith(line, prefix) == Len(line) > 0 /\ line[1] = prefix

\* line.replace("START_SAVING:", ""): every occurrence is removed.
RemoveAll(line, word) == SelectSeq(line, LAMBDA t : t # word)

(***************************************************************************)
(* Colour decoding and image synthesis                                     *)
(***************************************************************************)
Black == <<0, 0, 0>>

\* Decode with the fields shifted up to 8 bits, not scaled by 255 // (2^n - 1).
DecodeShifted(color) ==
    << ((color \div 2048) % 32) * 8,
       ((color \div 32) % 64) * 4,
       (color % 32) * 8 >>

\* RGB565 to 8-bit channels (lines 110-112).
Decode(color) ==
    << (((color \div 2048) % 32) * 255) \div 31,
       (((color \div 32) % 64) * 255) \div 63,
       ((color % 32) * 255) \div 31 >>

InRange(p, width, height) == 0 <= p[1] /\ p[1] < width /\ 0 <= p[2] /\ p[2] < height

\* The pixel buffer after the painting loop: black, then one write per sample.
RECURSIVE Paint(_, _, _)
Paint(pixel_data, width, height) ==
    IF pixel_data = <<>>
    THEN [c \in (0..(width - 1)) \X (0..(height - 1)) |-> Black]
    ELSE LET p == pixel_data[Len(pixel_data)]
             rest == Paint(SubSeq(pixel_data, 1, Len(pixel_data) - 1), width, height)
         IN  [rest EXCEPT ![<<p[1], p[2]>>] = Decode(p[3])]

\* non_black_pixels after the loop: one count per sample decoded non-black.
NonBlackCount(pixel_data) ==
    Cardinality({i \in 1..Len(pixel_data) : Decode(pixel_data[i][3]) # Black})

\* process_pixel_data with out-of-range samples skipped instead of rejected.
process_pixel_data_dropping(width, height, pixel_data, serial_number, saveOk) ==
    LET kept == SelectSeq(pixel_data, LAMBDA p : InRange(p, width, height))
    IN  IF pixel_data = <<>> \/ width <= 0 \/ height <= 0
        THEN [exc |-> "InvalidData", save |-> <<>>]
        ELSE IF Cardinality({i \in 1..Len(kept) : Decode(kept[i][3]) # Black}) = 0
        THEN [exc |-> "EmptySignature", save |-> <<>>]
        ELSE [exc |-> IF saveOk THEN "none" ELSE "SaveImage",
              save |-> << [serial_number |-> serial_number,
                           width |-> width * 2, height |-> height * 2,
                           frame |-> pixel_data,
                           painted |-> [c \in (0..(width - 1)) \X (0..(height - 1)) |->
                                          IF \E i \in 1..Len(kept) : <<kept[i][1], kept[i][2]>> = c
                                          THEN Decode(kept[CHOOSE i \in 1..Len(kept) :
                                                   /\ <<kept[i][1], kept[i][2]>> = c
                                                   /\ \A j \in (i + 1)..Len(kept) :
                                                          <<kept[j][1], kept[j][2]>> # c][3])
                                          ELSE Black]] >>]

\* SignatureProcessor.process_pixel_data: exc is the exception raised ("none"
\* if it returns), save the arguments of the _save_image call, if one is made.
process_pixel_data(width, height, pixel_data, serial_number, saveOk) ==
    IF pixel_data = <<>> \/ width <= 0 \/ height <= 0
    THEN [exc |-> "InvalidData", save |-> <<>>]
    ELSE IF \E i \in 1..Len(pixel_data) : ~InRange(pixel_data[i], width, height)
    THEN [exc |-> "InvalidData", save |-> <<>>]
    ELSE IF NonBlackCount(pixel_data) = 0
    THEN [exc |-> "EmptySignature", save |-> <<>>]
    ELSE [exc |-> IF saveOk THEN "none" ELSE "SaveImage",
          save |-> << [serial_number |-> serial_number,
                       width |-> width * 2, height |-> height * 2,
                       frame |-> pixel_data,
                       painted |-> Paint(pixel_data, width, height)] >>]

(***************************************************************************)
(* Inputs                                                                  *)
(***************************************************************************)
RECURSIVE Numeral(_)
Numeral(n) ==
    IF n < 10 THEN <<HexChars[n + 1]>>
    ELSE Numeral(n \div 10) \o <<HexChars[(n % 10) + 1]>>

RECURSIVE Join(_)
Join(fields) ==
    IF Len(fields) = 1 THEN fields[1]
    ELSE fields[1] \o <<COMMA>> \o Join(Tail(fields))

Junk == <<"O">>
Minus1 == <<"-", "1">>
Red == <<"F", "8", "0", "0">>
N0 == Numeral(0)
N1 == Numeral(1)
N2 == Numeral(2)

Serials == {<<>>, <<"A">>, <<START_SAVING>>, <<"A", START_SAVING, "B">>}
StartLines == {<<START_SAVING>> \o s : s \in Serials}
DimLines ==
    {<<DIM>> \o Join(fs) :
        fs \in {<<N1, N1>>, <<N2, N1>>, <<N1, N2>>,
                <<N0, N1>>, <<N1, Minus1>>, <<Junk, N1>>, <<N1, Junk>>,
                <<N1>>, <<N1, N1, N1>>}}
PixelLines ==
    {Join(fs) :
        fs \in {<<N0, N0, N0>>, <<N0, N0, Red>>, <<N1, N0, Red>>, <<N0, N1, Red>>,
                <<Minus1, N0, Red>>, <<N0, Minus1, Red>>,
                <<Junk, N0, Red>>, <<N0, Red, Red>>, <<N0, N0, <<"F", "O", "O">>>>,
                <<N0, N0>>, <<N0, N0, N0, N0>>}}
Lines == StartLines \cup DimLines \cup PixelLines \cup {<<END_SAVING>>, Junk}

\* The configured default dimensions (default_width, default_height).
DefaultDims == {<<2, 2>>, <<0, 2>>, <<2, 0>>}

(***************************************************************************)
(* The line protocol as its grammar writes it, used to tell what was sent  *)
(***************************************************************************)
DecText(n) == IF n < 0 THEN <<"-">> \o Numeral(0 - n) ELSE Numeral(n)
ColorTexts == {[text |-> N0, val |-> 0], [text |-> Red, val |-> 63488]}
PixelText(x, y, c) == Join(<<DecText(x), DecText(y), c.text>>)
DimText(w, h) == <<DIM>> \o Join(<<DecText(w), DecText(h)>>)

\* <x>,<y>,<hex-color> with decimal x, y, and the sample each such line spells.
PixelSamples == (-2..2) \X (-2..2) \X ColorTexts
WellFormedPixelLines == {PixelText(p[1], p[2], p[3]) : p \in PixelSamples}
SampleTable ==
    [line \in WellFormedPixelLines |->
        LET p == CHOOSE q \in PixelSamples : line = PixelText(q[1], q[2], q[3])
        IN  <<p[1], p[2], p[3].val>>]
IsPixelLine(line) == line \in WellFormedPixelLines
SampleOf(line) == SampleTable[line]

\* DIM:<w>,<h> with two positive decimal integers.
WellFormedDimLines == {DimText(d[1], d[2]) : d \in (1..3) \X (1..3)}
DimTable ==
    [line \in WellFormedDimLines |->
        CHOOSE d \in (1..3) \X (1..3) : line = DimText(d[1], d[2])]
IsDimLine(line) == line \in WellFormedDimLines
DimOf(line) == DimTable[line]

\* A line that is none of START_SAVING:..., END_SAVING, DIM:... and is not a
\* well-formed pixel line either.
IsMalformedPixelLine(line) ==
    /\ ~StartsWith(line, START_SAVING)
    /\ ~StartsWith(line, DIM)
    /\ line # <<END_SAVING>>
    /\ ~IsPixelLine(line)

\* The session the lines of a round have spelled so far: START_SAVING:<s>,
\* DIM:<w>,<h>, pixel lines inside [0,w) x [0,h), END_SAVING after at least one
\* pixel line with a non-black colour.  "off" once the lines depart from it.
NoSession == [phase |-> "idle", serial |-> <<>>, w |-> 0, h |-> 0, samples |-> <<>>]
OffSession == [NoSession EXCEPT !.phase = "off"]
SessionStep(g, line) ==
    CASE g.phase = "idle" ->
            IF StartsWith(line, START_SAVING) /\ Len(line) > 1
            THEN [NoSession EXCEPT !.phase = "start", !.serial = Tail(line)]
            ELSE OffSession
      [] g.phase = "start" ->
            IF IsDimLine(line)
            THEN [g EXCEPT !.phase = "dim", !.w = DimOf(line)[1], !.h = DimOf(line)[2]]
            ELSE OffSession
      [] g.phase \in {"dim", "pix"} ->
            IF IsPixelLine(line) /\ InRange(SampleOf(line), g.w, g.h)
            THEN [g EXCEPT !.phase = "pix", !.samples = Append(g.samples, SampleOf(line))]
            ELSE IF /\ g.phase = "pix"
                    /\ line = <<END_SAVING>>
                    /\ \E i \in 1..Len(g.samples) : g.samples[i][3] # 0
            THEN [g EXCEPT !.phase = "end"]
            ELSE OffSession
      [] OTHER -> OffSession

(***************************************************************************)
(* State                                                                   *)
(***************************************************************************)
VARIABLES
    interactive,      \* capture_signature(interactive=...)
    default_width,    \* SignatureCapture.default_width
    default_height,   \* SignatureCapture.default_height
    pc,               \* "connect", "loop" (top of the while), "read" (in read_line), "done"
    serial,           \* SerialConnection.serial: "None" or "open"
    capturing,        \* locals of _capture_once
    pixel_data,
    width,
    height,
    serial_number,
    outcome,          \* how the last _capture_once call ended: "none" while it runs, "ok", or its exception
    reported,         \* the messages capture_signature printed
    saved,            \* the arguments of the _save_image call of this round, if any
    closeCalls,       \* calls of SerialConnection.close
    saveCalls,        \* calls of _save_image
    commands,         \* CAPTURE_SIGNATURE commands written
    prompts,          \* calls of input()
    rounds,           \* calls of _capture_once
    connected,        \* connect() has returned True
    roundDim,         \* the last DIM:<w>,<h> line taken in Capturing in this round, if any
    session,          \* how far the lines of this round spell one well-formed session
    lastLine,         \* what the last read_line call of this round returned, <<>> if it raised
    openEvent,        \* what serial.Serial(...) did in connect(): "none" before the call
    connectResult,    \* what connect() returned or raised: "none" before the call
    userInput,        \* what the last input() call returned ("^C", "^D" if it raised)
    readEvent,        \* what the last read_line call of this round met: "line" or a failure
    status,           \* the status capture_wrapper.main printed: "none" until it does
    color565,         \* the colour given to the decoder
    rgb               \* the decoder's result, <<>> before it ran

locals == <<capturing, pixel_data, width, height, serial_number>>
config == <<interactive, default_width, default_height>>
counters == <<closeCalls, saveCalls, commands, prompts, rounds>>
history == <<connected, roundDim, session, lastLine>>
inputs == <<openEvent, userInput, readEvent>>
caller == <<connectResult, status>>
decoder == <<color565, rgb>>
vars == <<config, pc, serial, locals, outcome, reported, saved, counters, history,
          inputs, caller, decoder>>

CaptureInit ==
    /\ interactive \in BOOLEAN
    /\ \E d \in DefaultDims : default_width = d[1] /\ default_height = d[2]
    /\ pc = "connect"
    /\ serial = "None"
    /\ capturing = FALSE
    /\ pixel_data = <<>>
    /\ width = default_width
    /\ height = default_height
    /\ serial_number = <<>>
    /\ outcome = "none"
    /\ reported = <<>>
    /\ saved = <<>>
    /\ closeCalls = 0
    /\ saveCalls = 0
    /\ commands = 0
    /\ prompts = 0
    /\ rounds = 0
    /\ connected = FALSE
    /\ roundDim = <<>>
    /\ session = NoSession
    /\ lastLine = <<>>
    /\ openEvent = "none"
    /\ connectResult = "none"
    /\ userInput = ""
    /\ readEvent = "none"
    /\ status = "none"

Init ==
    /\ CaptureInit
    /\ color565 = 0
    /\ rgb = <<>>

(***************************************************************************)
(* _capture_once: what one line does to the locals (lines 198-237)         *)
(***************************************************************************)
\* The locals as a record; exc is the exception the line raises ("none" if
\* the loop goes on or breaks), brk whether the loop breaks.
Locals(c, p, w, h, s, exc, brk, save) ==
    [capturing |-> c, pixel_data |-> p, width |-> w, height |-> h,
     serial_number |-> s, exc |-> exc, brk |-> brk, save |-> save]

start_line(line) ==
    LET sn == RemoveAll(line, START_SAVING)
    IN  Locals(TRUE, <<>>, width, height, sn,
               IF sn = <<>> THEN "InvalidData" ELSE "none", FALSE, <<>>)

\* end_line with the two checks of lines 208-211 in the other order.
end_line_empty_first(saveOk) ==
    IF pixel_data = <<>>
    THEN Locals(FALSE, pixel_data, width, height, serial_number, "EmptySignature", FALSE, <<>>)
    ELSE IF width <= 0 \/ height <= 0
    THEN Locals(FALSE, pixel_data, width, height, serial_number, "InvalidData", FALSE, <<>>)
    ELSE LET r == process_pixel_data(width, height, pixel_data, serial_number, saveOk)
         IN  IF r.exc = "none"
             THEN Locals(FALSE, <<>>, width, height, serial_number, "none", TRUE, r.save)
             ELSE Locals(FALSE, pixel_data, width, height, serial_number, r.exc, FALSE, r.save)

end_line(saveOk) ==
    IF width <= 0 \/ height <= 0
    THEN Locals(FALSE, pixel_data, width, height, serial_number, "InvalidData", FALSE, <<>>)
    ELSE IF pixel_data = <<>>
    THEN Locals(FALSE, pixel_data, width, height, serial_number, "EmptySignature", FALSE, <<>>)
    ELSE LET r == process_pixel_data(width, height, pixel_data, serial_number, saveOk)
         IN  IF r.exc = "none"
             THEN Locals(FALSE, <<>>, width, height, serial_number, "none", TRUE, r.save)
             ELSE Locals(FALSE, pixel_data, width, height, serial_number, r.exc, FALSE, r.save)

\* dim_line with the test of line 223 written "< 0".
dim_line_zero_allowed(line) ==
    LET dims == Split(Tail(line))
    IN  IF Len(dims) # 2
        THEN Locals(TRUE, pixel_data, width, height, serial_number, "InvalidData", FALSE, <<>>)
        ELSE LET w == ParseInt(dims[1], 10)
                 h == ParseInt(dims[2], 10)
             IN  IF ~w.ok
                 THEN Locals(TRUE, pixel_data, width, height, serial_number,
                             "InvalidData", FALSE, <<>>)
                 ELSE IF ~h.ok
                 THEN Locals(TRUE, pixel_data, w.val, height, serial_number,
                             "InvalidData", FALSE, <<>>)
                 ELSE Locals(TRUE, pixel_data, w.val, h.val, serial_number,
                             IF w.val < 0 \/ h.val < 0 THEN "InvalidData" ELSE "none",
                             FALSE, <<>>)

dim_line(line) ==
    LET dims == Split(Tail(line))
    IN  IF Len(dims) # 2
        THEN Locals(TRUE, pixel_data, width, height, serial_number, "InvalidData", FALSE, <<>>)
        ELSE LET w == ParseInt(dims[1], 10)
                 h == ParseInt(dims[2], 10)
             IN  IF ~w.ok
                 THEN Locals(TRUE, pixel_data, width, height, serial_number,
                             "InvalidData", FALSE, <<>>)
                 ELSE IF ~h.ok
                 THEN Locals(TRUE, pixel_data, w.val, height, serial_number,
                             "InvalidData", FALSE, <<>>)
                 ELSE Locals(TRUE, pixel_data, w.val, h.val, serial_number,
                             IF w.val <= 0 \/ h.val <= 0 THEN "InvalidData" ELSE "none",
                             FALSE, <<>>)

\* pixel_line with the bounds checked as the sample is parsed.
pixel_line_eager(line) ==
    LET parts == Split(line)
    IN  IF Len(parts) # 3
        THEN Locals(TRUE, pixel_data, width, height, serial_number, "InvalidData", FALSE, <<>>)
        ELSE LET x == ParseInt(parts[1], 10)
                 y == ParseInt(parts[2], 10)
                 color == ParseInt(parts[3], 16)
             IN  IF x.ok /\ y.ok /\ color.ok /\ InRange(<<x.val, y.val>>, width, height)
                 THEN Locals(TRUE, Append(pixel_data, <<x.val, y.val, color.val>>),
                             width, height, serial_number, "none", FALSE, <<>>)
                 ELSE Locals(TRUE, pixel_data, width, height, serial_number,
                             "InvalidData", FALSE, <<>>)

\* pixel_line with a line that does not parse skipped instead of rejected.
pixel_line_skipping(line) ==
    LET parts == Split(line)
    IN  IF Len(parts) # 3
        THEN Locals(TRUE, pixel_data, width, height, serial_number, "InvalidData", FALSE, <<>>)
        ELSE LET x == ParseInt(parts[1], 10)
                 y == ParseInt(parts[2], 10)
                 color == ParseInt(parts[3], 16)
             IN  IF x.ok /\ y.ok /\ color.ok
                 THEN Locals(TRUE, Append(pixel_data, <<x.val, y.val, color.val>>),
                             width, height, serial_number, "none", FALSE, <<>>)
                 ELSE Locals(TRUE, pixel_data, width, height, serial_number,
                             "none", FALSE, <<>>)

pixel_line(line) ==
    LET parts == Split(line)
    IN  IF Len(parts) # 3
        THEN Locals(TRUE, pixel_data, width, height, serial_number, "InvalidData", FALSE, <<>>)
        ELSE LET x == ParseInt(parts[1], 10)
                 y == ParseInt(parts[2], 10)
                 color == ParseInt(parts[3], 16)
             IN  IF x.ok /\ y.ok /\ color.ok
                 THEN Locals(TRUE, Append(pixel_data, <<x.val, y.val, color.val>>),
                             width, height, serial_number, "none", FALSE, <<>>)
                 ELSE Locals(TRUE, pixel_data, width, height, serial_number,
                             "InvalidData", FALSE, <<>>)

\* capture_line with END_SAVING outside a capture rejected instead of ignored.
capture_line_strict_end(line, saveOk) ==
    IF StartsWith(line, START_SAVING) THEN start_line(line)
    ELSE IF line = <<END_SAVING>> /\ capturing THEN end_line(saveOk)
    ELSE IF line = <<END_SAVING>>
    THEN Locals(capturing, pixel_data, width, height, serial_number, "InvalidData", FALSE, <<>>)
    ELSE IF capturing
    THEN IF StartsWith(line, DIM) THEN dim_line(line) ELSE pixel_line(line)
    ELSE Locals(capturing, pixel_data, width, height, serial_number, "none", FALSE, <<>>)

\* capture_line taking a START_SAVING line in Idle only: in Capturing the
\* line goes the way of any other line.
capture_line_start_in_idle(line, saveOk) ==
    IF StartsWith(line, START_SAVING) /\ ~capturing THEN start_line(line)
    ELSE IF line = <<END_SAVING>> /\ capturing THEN end_line(saveOk)
    ELSE IF capturing
    THEN IF StartsWith(line, DIM) THEN dim_line(line) ELSE pixel_line(line)
    ELSE Locals(capturing, pixel_data, width, height, serial_number, "none", FALSE, <<>>)

capture_line(line, saveOk) ==
    IF StartsWith(line, START_SAVING) THEN start_line(line)
    ELSE IF line = <<END_SAVING>> /\ capturing THEN end_line(saveOk)
    ELSE IF capturing
    THEN IF StartsWith(line, DIM) THEN dim_line(line) ELSE pixel_line(line)
    ELSE Locals(capturing, pixel_data, width, height, serial_number, "none", FALSE, <<>>)

(***************************************************************************)
(* capture_signature (lines 148-185)                                       *)
(***************************************************************************)
UserInputs == {"", "salir", "SALIR", "no"}

\* str.lower() on the inputs above.
Lower(text) == IF text = "SALIR" THEN "salir" ELSE text

\* SerialConnection.close (lines 74-83): the handle after the call.
close(handle) == IF handle = "open" THEN "None" ELSE handle

\* The message printed by the except clause that catches exc (lines 171-180).
Handler(exc) ==
    CASE exc = "Timeout" -> "timeout"
      [] exc = "InvalidData" -> "invalid"
      [] exc = "EmptySignature" -> "empty"
      [] exc = "KeyboardInterrupt" -> "interrupt"
      [] OTHER -> "unexpected"

\* capture_wrapper.main (lines 17-29): "success" is printed when
\* capture_signature returns, "error" when it lets an exception through.
returns_to_main(how) == IF how = "return" THEN "success" ELSE "error"

\* SerialConnection.connect (lines 38-45) for what serial.Serial(...) does:
\* the value returned and the exception raised ("none" if it returns).
OpenEvents == {"ok", "SerialException", "ValueError"}
connect(open) ==
    CASE open = "ok" -> [ret |-> "True", exc |-> "none"]
      [] open = "SerialException" -> [ret |-> "none", exc |-> "SerialConnectionError"]
      [] OTHER -> [ret |-> "none", exc |-> open]

\* SerialConnection.read_line (lines 58-72): the exception raised when no
\* line is returned.
ReadFailures == {"timeout", "serial_error", "interrupt"}
\* read_line raising the interpreter's own TimeoutError, not the class of line 27.
read_line_raises_builtin(event) ==
    CASE event = "timeout" -> "OSError"
      [] event = "serial_error" -> "SerialConnection"
      [] OTHER -> "KeyboardInterrupt"

read_line_raises(event) ==
    CASE event = "timeout" -> "Timeout"
      [] event = "serial_error" -> "SerialConnection"
      [] OTHER -> "KeyboardInterrupt"

\* The finally clause (lines 181-185): close is called once.  (A failing
\* serial.close() is printed and changes nothing else: the handle is dropped
\* by the finally clause of close itself.)
Finally(msgs) ==
    /\ closeCalls' = closeCalls + 1
    /\ serial' = close(serial)
    /\ reported' = msgs
    /\ pc' = "done"
    /\ status' = returns_to_main("return")

\* Raise with the close made in the except clauses of the error classes only:
\* an interrupt leaves the port open.
RaiseCloseInHandlers(exc) ==
    IF exc = "KeyboardInterrupt"
    THEN /\ reported' = Append(reported, Handler(exc))
         /\ pc' = "done"
         /\ status' = returns_to_main("return")
         /\ UNCHANGED <<serial, closeCalls>>
    ELSE Finally(Append(reported, Handler(exc)))

\* An exception leaving the while loop: its except clause, then the finally.
Raise(exc) == Finally(Append(reported, Handler(exc)))

\* BeginRound with the serial number kept from the image saved before, as if
\* it were an attribute of the object and not a local of line 193.
BeginRoundStaleSerial ==
    /\ commands' = commands + 1
    /\ rounds' = rounds + 1
    /\ capturing' = FALSE
    /\ pixel_data' = <<>>
    /\ width' = default_width
    /\ height' = default_height
    /\ serial_number' = IF saved # <<>> THEN saved[1].serial_number ELSE <<>>
    /\ outcome' = "none"
    /\ saved' = <<>>
    /\ roundDim' = <<>>
    /\ session' = NoSession
    /\ lastLine' = <<>>
    /\ readEvent' = "none"
    /\ pc' = "read"
    /\ UNCHANGED <<serial, reported, closeCalls, saveCalls, connected, status>>

\* A successful send_command followed by the entry of _capture_once (lines 189-193).
BeginRound ==
    /\ commands' = commands + 1
    /\ rounds' = rounds + 1
    /\ capturing' = FALSE
    /\ pixel_data' = <<>>
    /\ width' = default_width
    /\ height' = default_height
    /\ serial_number' = <<>>
    /\ outcome' = "none"
    /\ saved' = <<>>
    /\ roundDim' = <<>>
    /\ session' = NoSession
    /\ lastLine' = <<>>
    /\ readEvent' = "none"
    /\ pc' = "read"
    /\ UNCHANGED <<serial, reported, closeCalls, saveCalls, connected, status>>

\* serial.Serial(...) succeeds: connect() returns True.
ConnectOk ==
    /\ pc = "connect"
    /\ \E open \in OpenEvents :
          /\ connect(open).exc = "none" /\ connect(open).ret = "True"
          /\ openEvent' = open
          /\ connectResult' = connect(open).ret
    /\ serial' = "open"
    /\ connected' = TRUE
    /\ pc' = "loop"
    /\ UNCHANGED <<config, locals, outcome, reported, saved, counters, roundDim, session, lastLine>>
    /\ UNCHANGED <<userInput, readEvent, status, decoder>>

\* ConnectFail without the return of line 155: the loop is entered all the same.
ConnectFailFallsThrough ==
    /\ pc = "connect"
    /\ \E open \in OpenEvents :
          /\ \/ connect(open).exc = "SerialConnectionError"
             \/ connect(open).exc = "none" /\ connect(open).ret # "True"
          /\ openEvent' = open
          /\ connectResult' = IF connect(open).exc = "none" THEN connect(open).ret
                                                           ELSE connect(open).exc
    /\ reported' = Append(reported, "connection")
    /\ pc' = "loop"
    /\ UNCHANGED <<config, serial, locals, outcome, saved, counters, history>>
    /\ UNCHANGED <<userInput, readEvent, status, decoder>>

\* connect() raises SerialConnectionError (or returns False): the error is
\* printed and capture_signature returns (lines 150-155).
ConnectFail ==
    /\ pc = "connect"
    /\ \E open \in OpenEvents :
          /\ \/ connect(open).exc = "SerialConnectionError"
             \/ connect(open).exc = "none" /\ connect(open).ret # "True"
          /\ openEvent' = open
          /\ connectResult' = IF connect(open).exc = "none" THEN connect(open).ret
                                                           ELSE connect(open).exc
    /\ reported' = Append(reported, "connection")
    /\ pc' = "done"
    /\ status' = returns_to_main("return")
    /\ UNCHANGED <<config, serial, locals, outcome, saved, counters, history>>
    /\ UNCHANGED <<userInput, readEvent, decoder>>

\* connect() lets another exception of serial.Serial(...) through: no except
\* clause of lines 150-155 catches it and it reaches the caller.
ConnectCrash ==
    /\ pc = "connect"
    /\ \E open \in OpenEvents :
          /\ connect(open).exc \notin {"none", "SerialConnectionError"}
          /\ openEvent' = open
          /\ connectResult' = connect(open).exc
    /\ pc' = "done"
    /\ status' = returns_to_main("raise")
    /\ UNCHANGED <<config, serial, locals, outcome, reported, saved, counters, history>>
    /\ UNCHANGED <<userInput, readEvent, decoder>>

\* Interactive: input() returns something other than the stop word.
PromptContinue ==
    /\ pc = "loop" /\ interactive /\ rounds < MaxRounds
    /\ \E user_input \in UserInputs :
          /\ Lower(user_input) # "salir"
          /\ prompts' = prompts + 1
          /\ userInput' = user_input
          /\ \E sendOk \in BOOLEAN :
                IF sendOk
                THEN BeginRound
                ELSE /\ Raise("SerialConnection")
                     /\ UNCHANGED <<locals, outcome, saved, saveCalls, commands, rounds, history>>
                     /\ UNCHANGED readEvent
    /\ UNCHANGED <<config, openEvent, connectResult, decoder>>

\* PromptStop with the command of line 168 written before the test of line 161.
PromptStopSends ==
    /\ pc = "loop" /\ interactive
    /\ \E user_input \in UserInputs :
          /\ Lower(user_input) = "salir"
          /\ prompts' = prompts + 1
          /\ userInput' = user_input
          /\ commands' = commands + 1
          /\ Finally(reported)
    /\ UNCHANGED <<config, locals, outcome, saved, saveCalls, rounds, history>>
    /\ UNCHANGED <<openEvent, readEvent, connectResult, decoder>>

\* Interactive: input() returns the stop word; break, then the finally.
PromptStop ==
    /\ pc = "loop" /\ interactive
    /\ \E user_input \in UserInputs :
          /\ Lower(user_input) = "salir"
          /\ prompts' = prompts + 1
          /\ userInput' = user_input
          /\ Finally(reported)
    /\ UNCHANGED <<config, locals, outcome, saved, saveCalls, commands, rounds, history>>
    /\ UNCHANGED <<openEvent, readEvent, connectResult, decoder>>

\* Interactive: input() is interrupted (KeyboardInterrupt) or fails (EOFError).
PromptAbort ==
    /\ pc = "loop" /\ interactive
    /\ \E exc \in {"KeyboardInterrupt", "EOFError"} :
          /\ prompts' = prompts + 1
          /\ userInput' = IF exc = "KeyboardInterrupt" THEN "^C" ELSE "^D"
          /\ Raise(exc)
    /\ UNCHANGED <<config, locals, outcome, saved, saveCalls, commands, rounds, history>>
    /\ UNCHANGED <<openEvent, readEvent, connectResult, decoder>>

\* Non-interactive: send the command and enter the one round.
SingleShot ==
    /\ pc = "loop" /\ ~interactive
    /\ \E sendOk \in BOOLEAN :
          IF sendOk
          THEN BeginRound
          ELSE /\ Raise("SerialConnection")
               /\ UNCHANGED <<locals, outcome, saved, saveCalls, commands, rounds, history>>
               /\ UNCHANGED readEvent
    /\ UNCHANGED <<config, prompts, openEvent, userInput, connectResult, decoder>>

\* _capture_once is left, by return or by an exception: its locals cease to
\* exist.  The model gives them the values a new call starts with.
Unwind ==
    /\ capturing' = FALSE
    /\ pixel_data' = <<>>
    /\ width' = default_width
    /\ height' = default_height
    /\ serial_number' = <<>>

\* AfterRound without the break of line 166: single-shot mode loops as well.
AfterRoundNoBreak ==
    /\ pc' = "loop"
    /\ UNCHANGED <<serial, reported, closeCalls, status>>

\* _capture_once has returned: single-shot mode breaks out of the loop
\* (line 166), interactive mode goes round it again (line 169 back to 158).
AfterRound ==
    IF interactive
    THEN /\ pc' = "loop"
         /\ UNCHANGED <<serial, reported, closeCalls, status>>
    ELSE Finally(reported)

\* read_line returns a line; _capture_once handles it, and whatever it raises
\* runs through the handlers of capture_signature.
ReadLine ==
    /\ pc = "read"
    /\ \E line \in Lines :
        \E saveOk \in IF line = <<END_SAVING>> THEN BOOLEAN ELSE {TRUE} :
          \E r \in {capture_line(line, saveOk)} :
              /\ Len(r.pixel_data) <= MaxPixels
              /\ lastLine' = line
              /\ readEvent' = "line"
              /\ session' = SessionStep(session, line)
              /\ roundDim' = IF capturing /\ IsDimLine(line) THEN DimOf(line) ELSE roundDim
              /\ saved' = IF r.save # <<>> THEN r.save ELSE saved
              /\ saveCalls' = saveCalls + Len(r.save)
              /\ IF r.exc # "none"
                 THEN outcome' = r.exc /\ Raise(r.exc) /\ Unwind
                 ELSE IF r.brk
                 THEN /\ outcome' = "ok"
                      /\ Unwind
                      /\ AfterRound
                 ELSE /\ capturing' = r.capturing
                      /\ pixel_data' = r.pixel_data
                      /\ width' = r.width
                      /\ height' = r.height
                      /\ serial_number' = r.serial_number
                      /\ UNCHANGED <<pc, serial, outcome, reported, closeCalls, status>>
    /\ UNCHANGED <<config, commands, prompts, rounds, connected>>
    /\ UNCHANGED <<openEvent, userInput, connectResult, decoder>>

\* read_line raises: no line for the timeout, a serial error, or an interrupt.
ReadFails ==
    /\ pc = "read"
    /\ \E event \in ReadFailures :
          /\ readEvent' = event
          /\ outcome' = read_line_raises(event)
          /\ Raise(read_line_raises(event))
    /\ Unwind
    /\ lastLine' = <<>>
    /\ session' = OffSession
    /\ UNCHANGED <<config, saved, saveCalls, commands, prompts, rounds, connected, roundDim>>
    /\ UNCHANGED <<openEvent, userInput, connectResult, decoder>>

Next ==
    \/ ConnectOk
    \/ ConnectFail
    \/ ConnectCrash
    \/ PromptContinue
    \/ PromptStop
    \/ PromptAbort
    \/ SingleShot
    \/ ReadLine
    \/ ReadFails

Spec == Init /\ [][Next]_vars

(***************************************************************************)
(* The decoder on its own: every 16-bit colour is decoded once.            *)
(***************************************************************************)
Colors16 == 0..65535

DecodeInit ==
    /\ CaptureInit
    /\ ~interactive /\ default_width = 2 /\ default_height = 2
    /\ color565 \in Colors16
    /\ rgb = <<>>

\* Lines 110-112 for the colour of one sample.
DecodeColor ==
    /\ rgb = <<>>
    /\ rgb' = Decode(color565)
    /\ UNCHANGED <<config, pc, serial, locals, outcome, reported, saved, counters,
                   history, inputs, caller, color565>>

DecodeNext == DecodeColor

DecodeSpec == DecodeInit /\ [][DecodeNext]_vars

(***************************************************************************)
(* Properties                                                              *)
(***************************************************************************)
RoundErrors == {"Timeout", "InvalidData", "EmptySignature", "SaveImage"}

\* A step in which read_line returned a line to _capture_once.
LineStep == pc = "read" /\ lastLine' # <<>>

\* C1: in interactive mode a round that fails with Timeout, InvalidData,
\* EmptySignature or SaveImage is reported and the loop goes on: the
\* orchestrator is back at the prompt with the transport still open.
C1_FailedRoundKeepsLoop ==
    [][(interactive /\ pc = "read" /\ outcome' \in RoundErrors)
          => (/\ Len(reported') = Len(reported) + 1
              /\ pc' = "loop"
              /\ serial' = "open"
              /\ closeCalls' = closeCalls)]_vars

\* C2: once connect() has succeeded, close is not called while the loop runs,
\* and has been called exactly once when capture_signature has returned,
\* whatever ended it.
C2_ClosedExactlyOnceAtEnd ==
    /\ pc \in {"loop", "read"} => (connected /\ serial = "open" /\ closeCalls = 0)
    /\ (pc = "done" /\ connected) => (serial = "None" /\ closeCalls = 1)
    /\ ~connected => closeCalls = 0

\* C2 witness: an interrupt during the blocking read of the first round, after
\* which the port has been closed once.
C2_Witness ==
    /\ pc = "done" /\ connected /\ rounds = 1
    /\ outcome = "KeyboardInterrupt"
    /\ closeCalls = 1 /\ serial = "None"

\* C3: while the lines of the round spell a well-formed session the round has
\* not failed, and once its END_SAVING is read the round has succeeded (short
\* of a failure of the save itself): _save_image was called once, with the
\* serial that was sent, a 2w x 2h bitmap, and the samples in arrival order.
C3_WellFormedSessionPersists ==
    /\ session.phase \in {"start", "dim", "pix"} => (pc = "read" /\ outcome = "none")
    /\ session.phase = "end" =>
          /\ outcome \in {"ok", "SaveImage"}
          /\ Len(saved) = 1
          /\ saved[1].serial_number = session.serial
          /\ saved[1].width = 2 * session.w
          /\ saved[1].height = 2 * session.h
          /\ saved[1].frame = session.samples

\* A line read while the round is in Capturing / in Idle.
CapturingLineStep == LineStep /\ capturing
IdleLineStep == LineStep /\ ~capturing

\* The round goes on after the step: nothing raised, nothing saved.
RoundGoesOn ==
    /\ pc' = "read"
    /\ outcome' = "none"
    /\ UNCHANGED <<saved, saveCalls, reported, serial, closeCalls>>

\* The round ends at the step with InvalidData and nothing saved.
FailsInvalidData ==
    /\ pc' # "read"
    /\ outcome' = "InvalidData"
    /\ reported' = Append(reported, "invalid")
    /\ UNCHANGED <<saved, saveCalls>>

\* Some accumulated sample lies outside [0,w) x [0,h).
SomeOutside(samples, w, h) == \E i \in 1..Len(samples) : ~InRange(samples[i], w, h)

C5_EndInIdleFails ==
    [][(IdleLineStep /\ lastLine' = <<END_SAVING>>) => FailsInvalidData]_vars

\* C5 amended: END_SAVING read in Idle is ignored like any other line before
\* START_SAVING: the round stays in Idle with its locals unchanged and goes on
\* reading.
C5_EndInIdleIgnored ==
    [][(IdleLineStep /\ lastLine' = <<END_SAVING>>)
          => (RoundGoesOn /\ UNCHANGED locals)]_vars

\* C5 witness: the round is in Idle, still reading, after an END_SAVING line.
C5_Witness ==
    /\ pc = "read" /\ ~capturing /\ outcome = "none"
    /\ lastLine = <<END_SAVING>>

\* The dimensions of the last DIM line of the round, or the defaults.
RoundWidth == IF roundDim = <<>> THEN default_width ELSE roundDim[1]
RoundHeight == IF roundDim = <<>> THEN default_height ELSE roundDim[2]

\* C6: a step that calls _save_image passes a frame whose samples all lie
\* inside the dimensions of the round's last DIM line (the defaults if there
\* was none); END_SAVING read with a sample outside them fails the round with
\* InvalidData and saves nothing.
C6_SavedFrameInBounds ==
    [][/\ saveCalls' # saveCalls
             => (/\ Len(saved') = 1
                 /\ ~SomeOutside(saved'[1].frame, RoundWidth', RoundHeight'))
       /\ (/\ CapturingLineStep
           /\ lastLine' = <<END_SAVING>>
           /\ SomeOutside(pixel_data, RoundWidth, RoundHeight))
             => FailsInvalidData]_vars

\* C6 witness: after a DIM line, END_SAVING has failed the round with
\* InvalidData and nothing was saved (the frame held a sample out of bounds).
C6_Witness ==
    /\ pc = "done" /\ outcome = "InvalidData"
    /\ lastLine = <<END_SAVING>>
    /\ roundDim # <<>>
    /\ saved = <<>>

\* C7: a frame whose painted buffer is all black is never passed to
\* _save_image.
C7_BlackBufferNeverSaved ==
    saved # <<>> =>
        \E c \in DOMAIN saved[1].painted : saved[1].painted[c] # Black

\* C8: in Capturing a malformed pixel line (not three fields, x or y not
\* decimal, colour not hexadecimal) fails the round with InvalidData at that
\* line: no further line is read, the frame is gone, nothing is saved.
C8_MalformedPixelFails ==
    [][(CapturingLineStep /\ IsMalformedPixelLine(lastLine'))
          => (FailsInvalidData /\ pixel_data' = <<>>)]_vars

\* C8 witness: the round has failed with InvalidData on the line 0,0,FOO.
C8_Witness ==
    /\ pc = "done" /\ outcome = "InvalidData"
    /\ lastLine = Join(<<N0, N0, <<"F", "O", "O">>>>)
    /\ saved = <<>>

\* C9: END_SAVING read in Capturing ends the round: InvalidData if width or
\* height is <= 0; otherwise EmptySignature if no sample was accumulated;
\* otherwise the frame goes to process_pixel_data, whose result is the round's.
C9_EndSavingOutcomes ==
    [][(CapturingLineStep /\ lastLine' = <<END_SAVING>>)
          => /\ pc' # "read"
             /\ IF width <= 0 \/ height <= 0
                THEN FailsInvalidData
                ELSE IF pixel_data = <<>>
                THEN outcome' = "EmptySignature" /\ UNCHANGED <<saved, saveCalls>>
                ELSE /\ outcome' \in {"ok", "InvalidData", "EmptySignature", "SaveImage"}
                     /\ outcome' \in {"ok", "SaveImage"} <=> saveCalls' = saveCalls + 1
                     /\ saveCalls' # saveCalls
                           => (/\ saved'[1].frame = pixel_data
                               /\ saved'[1].serial_number = serial_number
                               /\ saved'[1].width = 2 * width
                               /\ saved'[1].height = 2 * height)
                     /\ (/\ ~SomeOutside(pixel_data, width, height)
                         /\ \E i \in 1..Len(pixel_data) : pixel_data[i][3] # 0)
                           => saveCalls' = saveCalls + 1]_vars

\* C9 witness: with a default width <= 0 and no DIM line, END_SAVING has ended
\* the round with InvalidData.
C9_Witness ==
    /\ pc = "done" /\ outcome = "InvalidData"
    /\ lastLine = <<END_SAVING>>
    /\ default_width <= 0 /\ roundDim = <<>>

\* C10: in Capturing a DIM line with two positive integers replaces width and
\* height and leaves the samples and the serial number alone; any other DIM
\* line fails the round with InvalidData and nothing is saved.
C10_DimLine ==
    [][/\ (CapturingLineStep /\ IsDimLine(lastLine'))
             => (/\ RoundGoesOn
                 /\ width' = DimOf(lastLine')[1]
                 /\ height' = DimOf(lastLine')[2]
                 /\ UNCHANGED <<capturing, pixel_data, serial_number>>)
       /\ (CapturingLineStep /\ StartsWith(lastLine', DIM) /\ ~IsDimLine(lastLine'))
             => FailsInvalidData]_vars

\* C10 witness: a DIM:2,1 line has replaced the dimensions in effect while
\* samples were already accumulated.
C10_Witness ==
    /\ pc = "read" /\ capturing
    /\ lastLine = DimText(2, 1)
    /\ width = 2 /\ height = 1
    /\ <<width, height>> # <<default_width, default_height>>
    /\ pixel_data # <<>>

\* C11: a START_SAVING:<serial> line read in Idle with a non-empty serial
\* moves the round to Capturing with an empty accumulator and <serial> as the
\* serial number; with an empty serial it fails the round with InvalidData;
\* and _save_image is never called with an empty serial.
C11_StartInIdle ==
    [][/\ (IdleLineStep /\ StartsWith(lastLine', START_SAVING))
            => IF Tail(lastLine') # <<>>
               THEN /\ RoundGoesOn
                    /\ capturing'
                    /\ pixel_data' = <<>>
                    /\ serial_number' = Tail(lastLine')
               ELSE FailsInvalidData
       /\ \A i \in 1..Len(saved') : saved'[i].serial_number # <<>>]_vars

\* C12: a read_line call of a round, in Idle or in Capturing, that gets no
\* line within its timeout fails the round with Timeout and no other kind: the
\* timeout is what is reported, the accumulated locals are gone and
\* _save_image is not called.
C12_TimeoutFailsRound ==
    [][(pc = "read" /\ readEvent' = "timeout")
          => /\ pc' # "read"
             /\ outcome' = "Timeout"
             /\ reported' = Append(reported, "timeout")
             /\ pixel_data' = <<>> /\ ~capturing' /\ serial_number' = <<>>
             /\ UNCHANGED <<saved, saveCalls>>]_vars

\* A round that had taken a DIM line in Capturing ended with a timeout.
C12_Witness ==
    /\ readEvent = "timeout"
    /\ roundDim # <<>>
    /\ outcome = "Timeout"
    /\ reported = <<"timeout">>
    /\ saveCalls = 0

\* C13: in single-shot mode the caller is told how the round ended: once the
\* round has been run and the operation is over, the caller reports success
\* exactly if the round persisted its image, so a failed round is never
\* reported as success.
C13_OutcomeReachesCaller ==
    (~interactive /\ pc = "done" /\ rounds = 1)
        => (status = "success" <=> outcome = "ok")

\* C14: in single-shot mode the user is never prompted, at most one
\* CAPTURE_SIGNATURE command is written and a round is run for it and for it
\* only; the loop is not entered again once the command has gone out, and
\* when the operation is over after a successful connect the one command has
\* been sent and the one round run, however that round ended (unless the
\* write of the command itself failed, which is reported and ends the
\* operation with no round).
C14_SingleShotRunsOneRound ==
    ~interactive =>
        /\ prompts = 0
        /\ commands <= 1
        /\ rounds = commands
        /\ pc = "loop" => commands = 0
        /\ pc = "read" => commands = 1
        /\ (pc = "done" /\ connected) =>
              \/ commands = 1 /\ outcome # "none"
              \/ commands = 0 /\ outcome = "none" /\ reported = <<"unexpected">>

\* A single-shot operation is over after its round failed.
C14_Witness ==
    /\ ~interactive /\ pc = "done"
    /\ commands = 1 /\ rounds = 1 /\ prompts = 0
    /\ outcome = "InvalidData"

\* The stop word, in any letter case, and the other texts the user enters.
StopInputs == {"salir", "SALIR"}
GoInputs == {"", "no"}

\* A step of the loop in which input() returned.
PromptStep == pc = "loop" /\ prompts' = prompts + 1

\* C15: in interactive mode every step out of the loop head is a prompt, and
\* a round is started only by a prompt answered with something else than the
\* stop word: exactly one command is written and the round starts with no
\* line read yet (or the write fails, which is reported and ends the loop).
\* A prompt answered with the stop word ends the loop with no command, no
\* line read, no round and nothing reported.  The input is taken between
\* rounds only: inside a round nothing is prompted, the input is not looked
\* at, and the round ends only for a reason of its own.
C15_InteractiveLoop ==
    [][interactive =>
          /\ pc # "done"
          /\ pc = "loop" => PromptStep
          /\ pc = "read" =>
                /\ UNCHANGED <<prompts, userInput, commands, rounds>>
                /\ pc' # "read" => outcome' \in RoundErrors \cup
                                        {"ok", "SerialConnection", "KeyboardInterrupt"}
          /\ rounds' # rounds => PromptStep /\ userInput' \in GoInputs
          /\ (PromptStep /\ userInput' \in GoInputs) =>
                \/ /\ commands' = commands + 1
                   /\ rounds' = rounds + 1
                   /\ pc' = "read"
                   /\ lastLine' = <<>> /\ readEvent' = "none"
                   /\ UNCHANGED reported
                \/ /\ pc' = "done"
                   /\ reported' = Append(reported, "unexpected")
                   /\ UNCHANGED <<commands, rounds, lastLine, readEvent>>
          /\ (PromptStep /\ userInput' \in StopInputs) =>
                /\ pc' = "done"
                /\ UNCHANGED <<commands, rounds, lastLine, readEvent>>
                /\ UNCHANGED <<reported, outcome, saved, saveCalls>>]_vars

\* The user stopped the loop after a round that persisted its image.
C15_Witness ==
    /\ interactive /\ pc = "done"
    /\ userInput \in StopInputs
    /\ prompts = 2 /\ commands = 1 /\ rounds = 1
    /\ outcome = "ok" /\ reported = <<>>

\* C16: every round starts from a fresh session, whatever the round before
\* it did: at its start the round is in Idle with an empty accumulator, an
\* empty serial number and the default width and height.  Inside a round the
\* accumulator and the serial number stay empty until a START_SAVING line is
\* taken, and the dimensions stay the defaults until a DIM line of this round
\* is taken, so nothing of an earlier round shows in a later one.
C16_RoundStartsFresh ==
    [][/\ rounds' # rounds =>
             /\ pc' = "read"
             /\ ~capturing'
             /\ pixel_data' = <<>>
             /\ serial_number' = <<>>
             /\ width' = default_width
             /\ height' = default_height
       /\ (pc' = "read" /\ ~capturing') =>
             pixel_data' = <<>> /\ serial_number' = <<>>
       /\ (pc' = "read" /\ roundDim' = <<>>) =>
             width' = default_width /\ height' = default_height]_vars

\* A second round has started after a round that persisted its image.
C16_Witness ==
    /\ rounds = 2 /\ pc = "read" /\ lastLine = <<>>
    /\ saveCalls = 1
    /\ ~capturing /\ pixel_data = <<>> /\ serial_number = <<>>
    /\ width = default_width /\ height = default_height

\* C17: when the opening of the port fails, the operation is over with
\* nothing done: no prompt, no command, no line read, no round, nothing
\* saved, and no port left open.
C17_FailedOpenLeavesNothing ==
    openEvent \notin {"none", "ok"} =>
        /\ pc = "done"
        /\ prompts = 0 /\ commands = 0 /\ rounds = 0
        /\ lastLine = <<>> /\ readEvent = "none"
        /\ saved = <<>> /\ saveCalls = 0
        /\ serial = "None" /\ closeCalls = 0

\* serial.Serial(...) raised SerialException and the failure was reported.
C17_Witness ==
    /\ openEvent = "SerialException"
    /\ pc = "done"
    /\ reported = <<"connection">>
    /\ prompts = 0 /\ commands = 0 /\ rounds = 0 /\ saveCalls = 0

\* C18: connect() returns True when the opening of the port succeeds, and
\* returns False, raising nothing, when it fails.
C18_ConnectReturnsBoolean ==
    /\ openEvent = "ok" => connectResult = "True"
    /\ openEvent \notin {"none", "ok"} => connectResult = "False"

\* C19: for every 16-bit colour the three decoded channels lie in 0..255;
\* pure red, green and blue of RGB565 decode to full-scale red, green and
\* blue, 0 decodes to black, and no colour but 0 decodes to black.
C19_DecodeChannels ==
    rgb # <<>> =>
        /\ Len(rgb) = 3
        /\ \A i \in 1..3 : rgb[i] \in 0..255
        /\ color565 = 63488 => rgb = <<255, 0, 0>>
        /\ color565 = 2016 => rgb = <<0, 255, 0>>
        /\ color565 = 31 => rgb = <<0, 0, 255>>
        /\ color565 = 0 => rgb = Black
        /\ rgb = Black => color565 = 0

\* 0xF800 has been decoded to full-scale red.
C19_Witness == color565 = 63488 /\ rgb = <<255, 0, 0>>

\* C20 as claimed: a START_SAVING:<serial> line read in Capturing is taken
\* for a pixel line and fails the round with InvalidData.
C20_SecondStartFails ==
    [][(CapturingLineStep /\ StartsWith(lastLine', START_SAVING))
          => FailsInvalidData]_vars

\* The text holds no START_SAVING: keyword.
NoKeyword(text) == \A i \in 1..Len(text) : text[i] # START_SAVING

\* C20: a round never goes from Capturing back to Idle while it lasts, and a
\* START_SAVING:<serial> line read in Capturing starts the capture again: the
\* round stays in Capturing, the samples accumulated so far are dropped, the
\* width and height in effect are kept and the serial number is replaced
\* (by <serial> itself when it holds no keyword); the round fails with
\* InvalidData only when the serial taken from the line is empty.
C20_SecondStartRestarts ==
    [][/\ (pc = "read" /\ capturing /\ pc' = "read") => capturing'
       /\ (CapturingLineStep /\ StartsWith(lastLine', START_SAVING)) =>
             /\ \/ FailsInvalidData
                \/ /\ RoundGoesOn
                   /\ capturing'
                   /\ pixel_data' = <<>>
                   /\ serial_number' # <<>>
                   /\ UNCHANGED <<width, height>>
             /\ Tail(lastLine') = <<>> => FailsInvalidData
             /\ (Tail(lastLine') # <<>> /\ NoKeyword(Tail(lastLine'))) =>
                   RoundGoesOn /\ serial_number' = Tail(lastLine')]_vars

\* A START_SAVING line has just been taken by a round that was in Capturing
\* and had taken a DIM line: the accumulator is empty, the dimensions are kept.
C20_Witness ==
    /\ pc = "read" /\ capturing
    /\ StartsWith(lastLine, START_SAVING)
    /\ roundDim # <<>>
    /\ session.phase = "off"
    /\ pixel_data = <<>>
    /\ <<width, height>> = roundDim
    /\ serial_number = <<"A">>

====
